---- MODULE Spec2Model ----
(***************************************************************************)
(* A model of DCTFilter.cpp: filter construction (dctfilterCreate), the    *)
(* per-thread scratch buffer pool and the frame request                    *)
(* (dctfilterGetFrame, process), teardown (dctfilterFree) and the          *)
(* per-coefficient quantization step of the block loop.                    *)
(***************************************************************************)
EXTENDS Integers, Sequences, FiniteSets, TLC

VARIABLES
  in,        \* the arguments of dctfilterCreate (VSMap in, the clip's video info)
  d,         \* DCTFilterData as dctfilterCreate leaves it
  stage,     \* "new" | "live" | "failed" | "freed" | "crashed"
  active,    \* the threads of the host's pool that call dctfilterGetFrame
  budget,    \* frame requests the host may still make
  pending,   \* frames requested (arInitial done) and not yet delivered
  pc,        \* each thread's position in dctfilterGetFrame / process
  buffer,    \* d->buffer : thread id -> float *
  lockW,     \* d->buffer_lock: the exclusive holder, if any
  lockR,     \* d->buffer_lock: the shared holders
  local,     \* dctfilterGetFrame's local `buffer` (line 129)
  pbuf,      \* process's local `buffer` (line 57)
  raced,     \* the unlocked count() overlapped an emplace()
  heap,      \* scratch buffers allocated and not freed
  nextBuf,   \* allocation counter (fresh addresses)
  used,      \* the buffers each thread has fetched in process
  result,    \* what each thread's last request returned
  out,       \* the frame each thread's last request returned
  failedOnce,\* threads that have had a request fail on allocation
  qx, qq, q1, q2, qn  \* a coefficient, its step, and the results of quantizing it

vars == <<in, d, stage, active, budget, pending, pc, buffer, lockW, lockR, local,
          pbuf, raced, heap, nextBuf, used, result, out, failedOnce,
          qx, qq, q1, q2, qn>>

poolVars == <<pc, buffer, lockW, lockR, local, pbuf, raced, heap, nextBuf, used,
              result, out, failedOnce, pending, budget>>
quantVars == <<qx, qq, q1, q2, qn>>

-----------------------------------------------------------------------------
(* Bounds of the model *)
NumWorkers == 2
MaxFrames == 3
MaxN == 4
MaxDim == 4
MantBits == 3
MaxExp == 2

(* Program constants *)
DefaultN == 8

NULL == 0
NoPlan == "no plan"
Workers == 1..NumWorkers

-----------------------------------------------------------------------------
(* Integer helpers: C's int is two's complement; no value here nears its width *)

RECURSIVE Pow2(_)
Pow2(k) == IF k = 0 THEN 1 ELSE 2 * Pow2(k - 1)

(* a & b on two's complement integers: bit by bit, with floor division as the *)
(* arithmetic shift; 0 and -1 (all ones) end the recursion                    *)
RECURSIVE BitAnd(_, _)
BitAnd(a, b) ==
  IF a = 0 \/ b = 0 THEN 0
  ELSE IF a = -1 THEN b
  ELSE IF b = -1 THEN a
  ELSE (a % 2) * (b % 2) + 2 * BitAnd(a \div 2, b \div 2)

ShiftRight(a, k) == a \div Pow2(k)

-----------------------------------------------------------------------------
(* Video formats of the host: sample type, bit depth, planes, subsampling.  *)
(* `constant` is isConstantFormat(vi).                                      *)

Fmt(st, bits, np, sw, sh, c) ==
  [sampleType |-> st, bitsPerSample |-> bits, numPlanes |-> np,
   subSamplingW |-> sw, subSamplingH |-> sh, constant |-> c]

GRAY8     == Fmt("int", 8, 1, 0, 0, TRUE)
GRAYS     == Fmt("float", 32, 1, 0, 0, TRUE)
GRAYH     == Fmt("float", 16, 1, 0, 0, TRUE)
GRAY32    == Fmt("int", 32, 1, 0, 0, TRUE)
YUV420P8  == Fmt("int", 8, 3, 1, 1, TRUE)
YUV444P16 == Fmt("int", 16, 3, 0, 0, TRUE)
YUV410P8  == Fmt("int", 8, 3, 2, 2, TRUE)
YUV411P8  == Fmt("int", 8, 3, 2, 0, TRUE)
Variable  == Fmt("int", 8, 3, 0, 0, FALSE)

Formats == {GRAY8, GRAYS, GRAYH, GRAY32, YUV420P8, YUV444P16, YUV410P8,
            YUV411P8, Variable}

-----------------------------------------------------------------------------
(* dctfilterCreate *)

ErrN       == "n must be power of two and > 1"
ErrFormat  == "only constant format 8-16 bit integer and 32 bit float input supported"
ErrRange   == "plane index out of range"
ErrTwice   == "plane specified twice"
ErrNumFac  == "the number of factors must be equal to either n or n*n"
ErrFactor  == "factor must be between 0.0 and 1.0 (inclusive)"
ErrNumQps  == "the number of qps must be equal to either n or n*n"
ErrMalloc  == "malloc failure (buffer)"
ErrResize  == "resize error"

(* new DCTFilterData{}: value-initialized; node and vi are set from the clip *)
NewData(a) ==
  [status |-> "building", error |-> "", n |-> 0,
   padRun |-> FALSE, padWidth |-> 0, padHeight |-> 0,
   process |-> [p \in 0..2 |-> FALSE], peak |-> 0,
   factors |-> <<>>, normDen |-> 1, qps |-> <<>>,
   dct |-> NoPlan, idct |-> NoPlan,
   width |-> a.width, height |-> a.height, format |-> a.fmt,
   outWidth |-> 0, outHeight |-> 0]

(* throw std::string{...}; caught at line 308: setError, freeNode, return *)
Throw(dd, msg) == [dd EXCEPT !.status = "error", !.error = msg]

(* x % m of line 192. m = 0 is a division by zero: it traps (x86) or, where *)
(* integer division by zero yields 0 (AArch64), leaves x.                   *)
CRem(x, m) == IF m = 0 THEN x ELSE x % m

(* lines 192-193: (dim & (2*n-1)) ? 2*n - dim % (2*n) : 0 *)
PadOf(dim, n) ==
  IF BitAnd(dim, 2 * n - 1) # 0 THEN 2 * n - CRem(dim, 2 * n) ELSE 0

(* the quantization step c * sqrt(2)^s *)
QEntry(c, s) == [c |-> c, s |-> s]

(* lines 300-307, 314-339: the scratch allocation, the two plans, createFilter *)
(* and the crop back to the clip's own dimensions                             *)
CreatePlans(a, dd) ==
  IF ~a.allocOk THEN Throw(dd, ErrMalloc)
  ELSE [dd EXCEPT !.dct = IF a.dctOk THEN "dct" ELSE NoPlan,
                  !.idct = IF a.idctOk THEN "idct" ELSE NoPlan,
                  !.status = "created",
                  !.outWidth = dd.width - dd.padWidth,
                  !.outHeight = dd.height - dd.padHeight]

(* lines 286-297: the scaling of the expanded qps matrix; k is 1-based *)
QpsScaled(dd, k, c) ==
  LET n == dd.n
      cp == IF dd.format.sampleType = "int"
            THEN c * (Pow2(dd.format.bitsPerSample) - 1) ELSE c
  IN IF k = 1 THEN QEntry(cp * 2, 0)
     ELSE IF k - 1 < n \/ (k - 1) % n = 0 THEN QEntry(cp, 1)
     ELSE QEntry(cp, 0)

(* lines 270-298 *)
CreateQps(a, dd) ==
  LET n == dd.n
      nqps == Len(a.qps)
      zero == [k \in 1..(n * n) |-> QEntry(0, 0)]
  IN IF nqps <= 0 THEN CreatePlans(a, [dd EXCEPT !.qps = zero])
     ELSE IF nqps # n /\ nqps # n * n THEN Throw([dd EXCEPT !.qps = zero], ErrNumQps)
     ELSE LET raw == [k \in 1..(n * n) |->
                        IF nqps # n THEN a.qps[k]
                        ELSE a.qps[((k - 1) \div n) + 1] * a.qps[((k - 1) % n) + 1]]
          IN CreatePlans(a, [dd EXCEPT !.qps =
                               [k \in 1..(n * n) |-> QpsScaled(dd, k, raw[k])]])

(* lines 258-268: the attenuation matrix, as numerators over 4*n*n *)
CreateFactors(a, dd) ==
  LET n == dd.n
      nfactors == Len(a.factors)
  IN CreateQps(a, [dd EXCEPT
       !.normDen = n * n * 4,
       !.factors = [k \in 1..(n * n) |->
                      IF nfactors # n THEN a.factors[k]
                      ELSE a.factors[((k - 1) \div n) + 1] * a.factors[((k - 1) % n) + 1]]])

(* lines 232-256: peak, and the padding of the clip by resize.Point *)
CreatePad(a, dd) ==
  LET d1 == IF dd.format.sampleType = "int"
            THEN [dd EXCEPT !.peak = Pow2(dd.format.bitsPerSample) - 1] ELSE dd
  IN IF d1.padWidth # 0 \/ d1.padHeight # 0
     THEN IF ~a.resizeOk
          THEN [d1 EXCEPT !.status = "error", !.error = ErrResize]
          ELSE CreateFactors(a, [d1 EXCEPT !.width = d1.width + d1.padWidth,
                                           !.height = d1.height + d1.padHeight])
     ELSE CreateFactors(a, d1)

(* lines 218-225 *)
CheckFactors(a, dd) ==
  LET nfactors == Len(a.factors)
  IN IF nfactors # dd.n /\ nfactors # dd.n * dd.n THEN Throw(dd, ErrNumFac)
     ELSE IF \E i \in 1..nfactors : a.factors[i] < 0 \/ a.factors[i] > 1
          THEN Throw(dd, ErrFactor)
     ELSE CreatePad(a, dd)

(* lines 206-216: the loop over the planes argument, from its i-th entry *)
RECURSIVE PlanesLoop(_, _, _)
PlanesLoop(a, dd, i) ==
  IF i > Len(a.planes) THEN CheckFactors(a, dd)
  ELSE LET p == a.planes[i]
       IN IF p < 0 \/ p >= dd.format.numPlanes THEN Throw(dd, ErrRange)
          ELSE IF dd.process[p] THEN Throw(dd, ErrTwice)
          ELSE PlanesLoop(a, [dd EXCEPT !.process[p] = TRUE], i + 1)

(* lines 201-204 *)
SelectPlanes(a, dd) ==
  PlanesLoop(a, [dd EXCEPT !.process = [p \in 0..2 |-> Len(a.planes) <= 0]], 1)

(* lines 195-197 *)
CheckFormat(a, dd) ==
  IF ~a.fmt.constant
     \/ (a.fmt.sampleType = "int" /\ a.fmt.bitsPerSample > 16)
     \/ (a.fmt.sampleType = "float" /\ a.fmt.bitsPerSample # 32)
  THEN Throw(dd, ErrFormat)
  ELSE SelectPlanes(a, dd)

(* line 188: the test that rejects a block size *)
RejectsN(n) == n < 0 \/ BitAnd(n, n - 1) # 0

(* lines 177-193: n, its validation, the padding. trap: whether an integer *)
(* division by zero traps on this build                                    *)
CreateResult(a, trap) ==
  LET n == IF a.nGiven THEN a.n ELSE DefaultN
      d0 == NewData(a)
  IN IF RejectsN(n) THEN Throw(d0, ErrN)
     ELSE IF n = 0 /\ trap THEN [d0 EXCEPT !.n = n, !.padRun = TRUE, !.status = "crashed"]
     ELSE CheckFormat(a, [d0 EXCEPT !.n = n, !.padRun = TRUE,
                                    !.padWidth = PadOf(a.width, n),
                                    !.padHeight = PadOf(a.height, n)])

-----------------------------------------------------------------------------
(* The frame request: dctfilterGetFrame and process *)

NoFrame == <<>>

Range(f) == {f[x] : x \in DOMAIN f}

(* getFrameWidth / getFrameHeight of plane p of the (padded) clip *)
PlaneWidth(dd, p) == ShiftRight(dd.width, IF p > 0 THEN dd.format.subSamplingW ELSE 0)
PlaneHeight(dd, p) == ShiftRight(dd.height, IF p > 0 THEN dd.format.subSamplingH ELSE 0)

(* lines 73-74: the origins of the blocks the loops visit in plane p *)
BlocksOf(dd, p) ==
  {b \in (0..(PlaneWidth(dd, p) - 1)) \X (0..(PlaneHeight(dd, p) - 1)) :
     b[1] % dd.n = 0 /\ b[2] % dd.n = 0}

(* a block loop that does not test d->process[plane] *)
PlaneBlocksAll(dd, p) == BlocksOf(dd, p)

(* lines 64-65: the blocks process writes in plane p of dst *)
PlaneBlocks(dd, p) == IF dd.process[p] THEN BlocksOf(dd, p) ELSE {}

(* lines 144-146: newVideoFrame2 takes plane p from src unless it is processed *)
PlaneRef(dd, p) == IF dd.process[p] THEN "new" ELSE "src"

Idle == \A w \in Workers : pc[w] = "idle"

(* line 60: operator[] value-initializes (null) the entry of a missing key *)
Indexed(w) ==
  IF w \in DOMAIN buffer THEN buffer ELSE buffer @@ (w :> NULL)

(* line 122-123: arInitial *)
GetFrameInitial(w) ==
  /\ stage = "live" /\ pc[w] = "idle" /\ budget > 0
  /\ budget' = budget - 1
  /\ pending' = pending + 1
  /\ UNCHANGED <<in, d, stage, active, pc, buffer, lockW, lockR, local, pbuf, raced,
                 heap, nextBuf, used, result, out, failedOnce>>
  /\ UNCHANGED quantVars

(* lines 124-126: arAllFramesReady *)
GetFrameReady(w) ==
  /\ stage = "live" /\ pc[w] = "idle" /\ pending > 0
  /\ pending' = pending - 1
  /\ pc' = [pc EXCEPT ![w] = "count"]
  /\ result' = [result EXCEPT ![w] = "none"]
  /\ out' = [out EXCEPT ![w] = NoFrame]
  /\ UNCHANGED <<in, d, stage, active, budget, buffer, lockW, lockR, local, pbuf,
                 raced, heap, nextBuf, used, failedOnce>>
  /\ UNCHANGED quantVars

(* line 128: d->buffer.count(threadId) begins, with no lock held *)
CountBegin(w) ==
  /\ stage = "live" /\ pc[w] = "count"
  /\ pc' = [pc EXCEPT ![w] = "counting"]
  /\ raced' = [raced EXCEPT ![w] = \E v \in Workers \ {w} : pc[v] = "emplacing"]
  /\ UNCHANGED <<in, d, stage, active, budget, pending, buffer, lockW, lockR, local,
                 pbuf, heap, nextBuf, used, result, out, failedOnce>>
  /\ UNCHANGED quantVars

(* what count() != 0 may yield: the truth, or, when the read overlapped another *)
(* thread's emplace (a data race on the unordered_map), anything                *)
CountResults(w) == IF raced[w] THEN BOOLEAN ELSE {w \in DOMAIN buffer}

(* line 128: count returns *)
CountEnd(w) ==
  /\ stage = "live" /\ pc[w] = "counting"
  /\ \E found \in CountResults(w) :
       pc' = [pc EXCEPT ![w] = IF found THEN "newframe" ELSE "alloc"]
  /\ raced' = [raced EXCEPT ![w] = FALSE]
  /\ UNCHANGED <<in, d, stage, active, budget, pending, buffer, lockW, lockR, local,
                 pbuf, heap, nextBuf, used, result, out, failedOnce>>
  /\ UNCHANGED quantVars

(* line 129: fftwf_alloc_real succeeds *)
Alloc(w) ==
  /\ stage = "live" /\ pc[w] = "alloc"
  /\ local' = [local EXCEPT ![w] = nextBuf]
  /\ heap' = heap \cup {nextBuf}
  /\ nextBuf' = nextBuf + 1
  /\ pc' = [pc EXCEPT ![w] = "lock"]
  /\ UNCHANGED <<in, d, stage, active, budget, pending, buffer, lockW, lockR, pbuf,
                 raced, used, result, out, failedOnce>>
  /\ UNCHANGED quantVars

(* a failed allocation that registers its null pointer all the same *)
AllocFailRegistersNull(w) ==
  /\ stage = "live" /\ pc[w] = "alloc"
  /\ buffer' = Indexed(w)
  /\ result' = [result EXCEPT ![w] = "error"]
  /\ failedOnce' = failedOnce \cup {w}
  /\ pc' = [pc EXCEPT ![w] = "idle"]
  /\ UNCHANGED <<in, d, stage, active, budget, pending, lockW, lockR, local,
                 pbuf, raced, heap, nextBuf, used, out>>
  /\ UNCHANGED quantVars

(* lines 129-131, 138-140: fftwf_alloc_real returns null; the request fails *)
AllocFail(w) ==
  /\ stage = "live" /\ pc[w] = "alloc"
  /\ result' = [result EXCEPT ![w] = "error"]
  /\ failedOnce' = failedOnce \cup {w}
  /\ pc' = [pc EXCEPT ![w] = "idle"]
  /\ UNCHANGED <<in, d, stage, active, budget, pending, buffer, lockW, lockR, local,
                 pbuf, raced, heap, nextBuf, used, out>>
  /\ UNCHANGED quantVars

(* line 134: std::lock_guard<std::shared_mutex> *)
LockExclusive(w) ==
  /\ stage = "live" /\ pc[w] = "lock"
  /\ lockW = {} /\ lockR = {}
  /\ lockW' = {w}
  /\ pc' = [pc EXCEPT ![w] = "emplace"]
  /\ UNCHANGED <<in, d, stage, active, budget, pending, buffer, lockR, local, pbuf,
                 raced, heap, nextBuf, used, result, out, failedOnce>>
  /\ UNCHANGED quantVars

(* line 135: emplace begins to modify the map *)
EmplaceBegin(w) ==
  /\ stage = "live" /\ pc[w] = "emplace"
  /\ pc' = [pc EXCEPT ![w] = "emplacing"]
  /\ raced' = [v \in Workers |-> raced[v] \/ (v # w /\ pc[v] = "counting")]
  /\ UNCHANGED <<in, d, stage, active, budget, pending, buffer, lockW, lockR, local,
                 pbuf, heap, nextBuf, used, result, out, failedOnce>>
  /\ UNCHANGED quantVars

(* line 135: emplace inserts (threadId, buffer) unless the key is present *)
Emplaced(w) ==
  IF w \in DOMAIN buffer THEN buffer ELSE buffer @@ (w :> local[w])

EmplaceEnd(w) ==
  /\ stage = "live" /\ pc[w] = "emplacing"
  /\ buffer' = Emplaced(w)
  /\ pc' = [pc EXCEPT ![w] = "unlock"]
  /\ UNCHANGED <<in, d, stage, active, budget, pending, lockW, lockR, local, pbuf,
                 raced, heap, nextBuf, used, result, out, failedOnce>>
  /\ UNCHANGED quantVars

(* line 136: the lock_guard goes out of scope *)
UnlockExclusive(w) ==
  /\ stage = "live" /\ pc[w] = "unlock"
  /\ lockW' = {}
  /\ pc' = [pc EXCEPT ![w] = "newframe"]
  /\ UNCHANGED <<in, d, stage, active, budget, pending, buffer, lockR, local, pbuf,
                 raced, heap, nextBuf, used, result, out, failedOnce>>
  /\ UNCHANGED quantVars

(* lines 143-146: getFrameFilter, newVideoFrame2 *)
NewFrame(w) ==
  /\ stage = "live" /\ pc[w] = "newframe"
  /\ out' = [out EXCEPT ![w] =
               [p \in 0..(d.format.numPlanes - 1) |->
                  [ref |-> PlaneRef(d, p), blocks |-> {}]]]
  /\ pc' = [pc EXCEPT ![w] = "lock_shared"]
  /\ UNCHANGED <<in, d, stage, active, budget, pending, buffer, lockW, lockR, local,
                 pbuf, raced, heap, nextBuf, used, result, failedOnce>>
  /\ UNCHANGED quantVars

(* line 59: process takes the lock shared *)
LockShared(w) ==
  /\ stage = "live" /\ pc[w] = "lock_shared"
  /\ lockW = {}
  /\ lockR' = lockR \cup {w}
  /\ pc' = [pc EXCEPT ![w] = "index"]
  /\ UNCHANGED <<in, d, stage, active, budget, pending, buffer, lockW, local, pbuf,
                 raced, heap, nextBuf, used, result, out, failedOnce>>
  /\ UNCHANGED quantVars

Index(w) ==
  /\ stage = "live" /\ pc[w] = "index"
  /\ buffer' = Indexed(w)
  /\ pbuf' = [pbuf EXCEPT ![w] = buffer'[w]]
  /\ used' = [used EXCEPT ![w] = @ \cup {buffer'[w]}]
  /\ pc' = [pc EXCEPT ![w] = "unlock_shared"]
  /\ UNCHANGED <<in, d, stage, active, budget, pending, lockW, lockR, local, raced,
                 heap, nextBuf, result, out, failedOnce>>
  /\ UNCHANGED quantVars

(* line 61 *)
UnlockShared(w) ==
  /\ stage = "live" /\ pc[w] = "unlock_shared"
  /\ lockR' = lockR \ {w}
  /\ pc' = [pc EXCEPT ![w] = "planes"]
  /\ UNCHANGED <<in, d, stage, active, budget, pending, buffer, lockW, local, pbuf,
                 raced, heap, nextBuf, used, result, out, failedOnce>>
  /\ UNCHANGED quantVars

(* lines 64-112, 155-156: the plane and block loops, and the return of dst. *)
(* A block is copied through the scratch pointer and run through both plans: *)
(* a null scratch pointer or a null plan is a null dereference.              *)
ProcessPlanes(w) ==
  /\ stage = "live" /\ pc[w] = "planes"
  /\ LET planes == 0..(d.format.numPlanes - 1)
         work == \E p \in planes : PlaneBlocks(d, p) # {}
     IN IF work /\ (pbuf[w] = NULL \/ d.dct = NoPlan \/ d.idct = NoPlan)
        THEN /\ stage' = "crashed"
             /\ UNCHANGED <<out, result, pc>>
        ELSE /\ out' = [out EXCEPT ![w] =
                          [p \in planes |-> [@[p] EXCEPT !.blocks = PlaneBlocks(d, p)]]]
             /\ result' = [result EXCEPT ![w] = "frame"]
             /\ pc' = [pc EXCEPT ![w] = "idle"]
             /\ UNCHANGED stage
  /\ UNCHANGED <<in, d, active, budget, pending, buffer, lockW, lockR, local, pbuf,
                 raced, heap, nextBuf, used, failedOnce>>
  /\ UNCHANGED quantVars

(* lines 162-174: every registered buffer is freed with the filter *)
dctfilterFree ==
  /\ stage = "live" /\ Idle /\ pending = 0
  /\ heap' = heap \ Range(buffer)
  /\ stage' = "freed"
  /\ UNCHANGED <<in, d, active, budget, pending, pc, buffer, lockW, lockR, local,
                 pbuf, raced, nextBuf, used, result, out, failedOnce>>
  /\ UNCHANGED quantVars

(* lines 176-340 *)
dctfilterCreate ==
  /\ stage = "new"
  /\ \E trap \in BOOLEAN :
       /\ d' = CreateResult(in, trap)
       /\ stage' = CASE d'.status = "created" -> "live"
                     [] d'.status = "crashed" -> "crashed"
                     [] OTHER -> "failed"
  /\ UNCHANGED <<in, active>>
  /\ UNCHANGED poolVars
  /\ UNCHANGED quantVars

-----------------------------------------------------------------------------
(* The quantization of one coefficient (lines 87-89), in a binary floating  *)
(* point format of MantBits significant bits: the representable values are  *)
(* the integers m * 2^e with m < 2^MantBits (float has 24 bits and a       *)
(* fractional scale, which changes nothing below).                         *)

Abs(x) == IF x < 0 THEN -x ELSE x
Sign(x) == IF x < 0 THEN -1 ELSE IF x > 0 THEN 1 ELSE 0

(* the exponent e of the binade of v >= 0 *)
RECURSIVE ExpOf(_)
ExpOf(v) == IF v < Pow2(MantBits) THEN 0 ELSE 1 + ExpOf(v \div 2)

Representable(x) == Abs(x) % Pow2(ExpOf(Abs(x))) = 0

(* round to nearest, ties to even: the rounding of every float operation *)
RoundF(x) ==
  LET v == Abs(x)
      u == Pow2(ExpOf(v))
      m == v \div u
      r == v % u
      up == 2 * r > u \/ (2 * r = u /\ m % 2 = 1)
  IN Sign(x) * (IF up THEN m + 1 ELSE m) * u

(* fmodf(x, q): the remainder of the division truncated toward zero; exact *)
FMod(x, q) == Sign(x) * (Abs(x) % Abs(q))

(* a - b on floats *)
FSub(a, b) == RoundF(a - b)

(* a quantization by the floored remainder, which rounds away from zero below it *)
QuantStepFloor(x, q) == IF q > 0 THEN FSub(x, x % q) ELSE x

(* lines 87-89: if (qps[i] > 0.0f) buffer[i] -= fmodf(buffer[i], qps[i]) *)
QuantStep(x, q) == IF q > 0 THEN FSub(x, FMod(x, q)) ELSE x

Floats ==
  {s * m * Pow2(e) : s \in {-1, 1}, m \in 0..(Pow2(MantBits) - 1), e \in 0..MaxExp}

(* the step is applied to a coefficient, and then again to the result *)
Quantize ==
  /\ stage = "quant" /\ qn < 2
  /\ qn' = qn + 1
  /\ q1' = IF qn = 0 THEN QuantStep(qx, qq) ELSE q1
  /\ q2' = IF qn = 1 THEN QuantStep(q1, qq) ELSE q2
  /\ UNCHANGED <<qx, qq, in, d, stage, active>>
  /\ UNCHANGED poolVars

-----------------------------------------------------------------------------
(* The arguments dctfilterCreate is called with *)

Args(g, n, w, h, f, pl, fa, qp, r, al, dc, ic) ==
  [nGiven |-> g, n |-> n, width |-> w, height |-> h, fmt |-> f, planes |-> pl,
   factors |-> fa, qps |-> qp, resizeOk |-> r, allocOk |-> al, dctOk |-> dc,
   idctOk |-> ic]

Ones(k) == [i \in 1..k |-> 1]
Spike(len, pos, v, base) == [i \in 1..len |-> IF i = pos THEN v ELSE base]
Max(a, b) == IF a > b THEN a ELSE b

NVals == -1..MaxN

(* the host accepts only dimensions its subsampling divides *)
Dims(f, isW) ==
  {x \in 1..MaxDim : x % Pow2(IF isW THEN f.subSamplingW ELSE f.subSamplingH) = 0}

PlaneLists ==
  {<<>>, <<0>>, <<1>>, <<2>>, <<0, 1>>, <<2, 1>>, <<0, 1, 2>>, <<0, 0>>,
   <<1, 0, 1>>, <<3>>, <<-1>>}

(* clips of every geometry and format, with every plane selection *)
GeomArgs ==
  {Args(TRUE, n, w, h, f, pl, Ones(Max(n, 1)), <<>>, TRUE, TRUE, TRUE, TRUE) :
     n \in NVals, f \in Formats, pl \in PlaneLists, w \in 1..MaxDim, h \in 1..MaxDim}

Lengths(n) == {n, n * n, n + 1} \ {0}

FactorLists(n) ==
  {Spike(len, pos, v, 1) : len \in Lengths(n), pos \in {1}, v \in {-1, 0, 1, 2}}

QpsLists(n) ==
  {<<>>} \cup
  {Spike(len, pos, v, b) : len \in Lengths(n), pos \in 1..2, v \in {-1, 0, 2},
                           b \in {1}}

(* factors, qps and the failures of the allocator and the plan builder *)
ParamArgs ==
  UNION {{Args(TRUE, n, 4, 4, f, <<>>, fa, qp, TRUE, al, dc, ic) :
            f \in {GRAY8, GRAYS}, fa \in FactorLists(Max(n, 0)),
            qp \in QpsLists(Max(n, 0)), al \in BOOLEAN, dc \in BOOLEAN,
            ic \in BOOLEAN} : n \in NVals}

(* n is not given: it defaults; and the clip needs padding the resizer may refuse *)
DefaultArgs ==
  {Args(FALSE, 0, w, 4, f, <<>>, Ones(DefaultN), <<>>, r, TRUE, TRUE, TRUE) :
     w \in {4, 16}, f \in {GRAY8, YUV420P8}, r \in BOOLEAN}

CreateArgs == {a \in GeomArgs : a.width \in Dims(a.fmt, TRUE)
                                /\ a.height \in Dims(a.fmt, FALSE)}
              \cup ParamArgs \cup DefaultArgs

(* the clip of the concurrent runs: one processed and two copied planes *)
PoolArgs ==
  Args(TRUE, 2, 4, 4, YUV420P8, <<0>>, Ones(2), <<>>, TRUE, TRUE, TRUE, TRUE)

-----------------------------------------------------------------------------
InitWith(args, threads, frames, st) ==
  /\ in \in args
  /\ d = NewData(in)
  /\ stage = st
  /\ active = threads
  /\ budget = frames
  /\ pending = 0
  /\ pc = [w \in Workers |-> "idle"]
  /\ buffer = <<>>
  /\ lockW = {}
  /\ lockR = {}
  /\ local = [w \in Workers |-> NULL]
  /\ pbuf = [w \in Workers |-> NULL]
  /\ raced = [w \in Workers |-> FALSE]
  /\ heap = {}
  /\ nextBuf = 1
  /\ used = [w \in Workers |-> {}]
  /\ result = [w \in Workers |-> "none"]
  /\ out = [w \in Workers |-> NoFrame]
  /\ failedOnce = {}

(* a filter on one clip, its frames requested by every thread of the pool *)
Init ==
  /\ InitWith({PoolArgs}, Workers, MaxFrames, "new")
  /\ qx = 0 /\ qq = 0 /\ q1 = 0 /\ q2 = 0 /\ qn = 0

(* a filter on any arguments, one frame requested by one thread *)
InitCreate ==
  /\ InitWith(CreateArgs, {1}, 1, "new")
  /\ qx = 0 /\ qq = 0 /\ q1 = 0 /\ q2 = 0 /\ qn = 0

(* a coefficient and a step *)
InitQuant ==
  /\ InitWith({PoolArgs}, {}, 0, "quant")
  /\ qx \in Floats /\ qq \in Floats
  /\ q1 = 0 /\ q2 = 0 /\ qn = 0

Next ==
  \/ dctfilterCreate
  \/ dctfilterFree
  \/ \E w \in active : GetFrameInitial(w)
  \/ \E w \in active : GetFrameReady(w)
  \/ \E w \in active : CountBegin(w)
  \/ \E w \in active : CountEnd(w)
  \/ \E w \in active : Alloc(w)
  \/ \E w \in active : AllocFail(w)
  \/ \E w \in active : LockExclusive(w)
  \/ \E w \in active : EmplaceBegin(w)
  \/ \E w \in active : EmplaceEnd(w)
  \/ \E w \in active : UnlockExclusive(w)
  \/ \E w \in active : NewFrame(w)
  \/ \E w \in active : LockShared(w)
  \/ \E w \in active : Index(w)
  \/ \E w \in active : UnlockShared(w)
  \/ \E w \in active : ProcessPlanes(w)

NextQuant == Quantize

Spec == Init /\ [][Next]_vars
SpecCreate == InitCreate /\ [][Next]_vars
SpecQuant == InitQuant /\ [][NextQuant]_vars

-----------------------------------------------------------------------------
(* Properties *)

Reading(w) == pc[w] \in {"counting", "index"}
HoldsLock(w) == w \in lockW \/ w \in lockR
Registering(w) == pc[w] \in {"lock", "emplace", "emplacing"}
Registered(w) ==
  pc[w] \in {"unlock", "newframe", "lock_shared", "index", "unlock_shared", "planes"}
  \/ result[w] = "frame"
RequestedN == IF in.nGiven THEN in.n ELSE DefaultN
ValidN(n) == n \in {Pow2(k) : k \in 1..(MaxN + 4)}
Planes == 0..(d.format.numPlanes - 1)

(* C1: no thread reads the thread-to-buffer map (the existence check, or the *)
(* fetch of its buffer) holding no lock while another thread is inserting    *)
(* into the map.                                                             *)
C1_MapReadsAreLocked ==
  \A w \in Workers :
    (Reading(w) /\ ~HoldsLock(w)) => ~(\E v \in Workers \ {w} : pc[v] = "emplacing")

(* C2: every thread that has completed registration maps to exactly one     *)
(* (non-null) buffer, no two threads map to the same buffer, every allocated *)
(* buffer is in the map (or about to be put there by the thread that         *)
(* allocated it), all are freed at teardown, and a thread fetches the same   *)
(* buffer in every request.                                                  *)
C2_OneBufferPerWorker ==
  /\ \A w \in Workers : Registered(w) => (w \in DOMAIN buffer /\ buffer[w] # NULL)
  /\ \A v, w \in DOMAIN buffer : v # w => buffer[v] # buffer[w]
  /\ \A b \in heap :
       IF stage = "freed" THEN FALSE
       ELSE b \in Range(buffer) \/ \E w \in Workers : Registering(w) /\ local[w] = b
  /\ \A w \in Workers : Cardinality(used[w]) <= 1

(* C3: a block size that is not a power of two >= 2 is rejected with the    *)
(* block size error before anything is computed from it, and no filter is   *)
(* created for it.                                                          *)
C3_BlockSizeValidated ==
  (stage # "new" /\ stage # "quant" /\ ~ValidN(RequestedN)) =>
     (d.status = "error" /\ d.error = ErrN /\ ~d.padRun)

(* C4: for a valid block size, the width and height of every processed      *)
(* plane are multiples of n, and every block the loop visits lies inside    *)
(* the plane.                                                               *)
C4_BlocksInsidePlane ==
  \A w \in Workers :
    (result[w] = "frame" /\ ValidN(d.n)) =>
      \A p \in DOMAIN out[w] :
        d.process[p] =>
          /\ PlaneWidth(d, p) % d.n = 0
          /\ PlaneHeight(d, p) % d.n = 0
          /\ \A b \in out[w][p].blocks :
               b[1] + d.n <= PlaneWidth(d, p) /\ b[2] + d.n <= PlaneHeight(d, p)

(* C5: no filter (of a valid block size) is created from a negative qps     *)
(* entry, and every entry of a created filter's expanded quantization       *)
(* matrix is >= 0.                                                          *)
C5_QpsNonNegative ==
  (d.status = "created" /\ ValidN(d.n)) =>
    /\ \A i \in 1..Len(in.qps) : in.qps[i] >= 0
    /\ \A k \in 1..Len(d.qps) : d.qps[k].c >= 0

(* C6: no filter (of a valid block size) is created when the plan builder   *)
(* returned no forward or no inverse plan.                                  *)
C6_NoFilterWithoutPlan ==
  (d.status = "created" /\ ValidN(d.n)) => (d.dct # NoPlan /\ d.idct # NoPlan)

(* C7: the step in which a request fails on its scratch allocation reports  *)
(* the error and returns no frame, leaves the map and the lock as they were, *)
(* the failing thread holding no lock, and leaves the filter live.          *)
C7_AllocFailureFailsOnlyFrame ==
  [][\A w \in Workers :
       (pc[w] = "alloc" /\ pc'[w] = "idle") =>
          /\ result'[w] = "error" /\ out'[w] = NoFrame
          /\ buffer' = buffer
          /\ lockW' = lockW /\ lockR' = lockR /\ ~HoldsLock(w)
          /\ stage' = "live"]_vars

(* C7 witness: a thread whose request failed on allocation has since been   *)
(* given a buffer, registered it and returned a frame.                      *)
C7_Witness ==
  \E w \in failedOnce :
    /\ result[w] = "frame" /\ out[w] # NoFrame
    /\ w \in DOMAIN buffer /\ buffer[w] # NULL /\ pbuf[w] = buffer[w]

(* C8: a plane that is not selected is the source's plane in the output and *)
(* is not written; the selected planes are those listed, or all when none   *)
(* is listed; a plane index out of range or listed twice creates no filter. *)
C8_UnselectedPlanesPassThrough ==
  /\ \A w \in Workers : \A p \in DOMAIN out[w] :
       ~d.process[p] => (out[w][p].ref = "src" /\ out[w][p].blocks = {})
  /\ d.status = "created" =>
       \A p \in Planes :
         d.process[p] <=> (in.planes = <<>> \/ p \in Range(in.planes))
  /\ (\/ \E i \in 1..Len(in.planes) : in.planes[i] \notin 0..(in.fmt.numPlanes - 1)
      \/ \E i, j \in 1..Len(in.planes) : i # j /\ in.planes[i] = in.planes[j])
       => d.status # "created"

(* C8 witness: a returned frame with a copied plane and a processed plane *)
C8_Witness ==
  \E w \in Workers :
    /\ result[w] = "frame"
    /\ \E p, q \in DOMAIN out[w] :
         /\ ~d.process[p] /\ out[w][p].ref = "src"
         /\ d.process[q] /\ out[w][q].ref = "new" /\ out[w][q].blocks # {}

(* C9 as stated: for q > 0, quantizing twice equals quantizing once, the    *)
(* result is a multiple of q, no larger in magnitude than x and of x's sign *)
(* or zero; for q = 0 the value is unchanged.                               *)
C9_QuantIdempotent ==
  qn = 2 =>
    /\ qq > 0 => /\ q2 = q1
                 /\ q1 % qq = 0
                 /\ Abs(q1) <= Abs(qx)
                 /\ (Sign(q1) = Sign(qx) \/ q1 = 0)
    /\ qq = 0 => (q1 = qx /\ q2 = qx)

(* C9 amended: the result is x - (x mod q) rounded to the sample format;    *)
(* when that difference is representable it is the result, a multiple of q, *)
(* and quantizing it again changes nothing; in every case the result is no  *)
(* larger in magnitude than x and of x's sign or zero; q = 0 changes        *)
(* nothing.                                                                 *)
C9_QuantIdempotentWhenExact ==
  qn = 2 =>
    /\ qq > 0 => /\ Representable(qx - FMod(qx, qq)) =>
                      (q1 = qx - FMod(qx, qq) /\ q1 % qq = 0 /\ q2 = q1)
                 /\ Abs(q1) <= Abs(qx)
                 /\ (Sign(q1) = Sign(qx) \/ q1 = 0)
    /\ qq = 0 => (q1 = qx /\ q2 = qx)

(* C9 witness: a negative coefficient pulled toward zero to a multiple of   *)
(* the step, and left there by the second quantization                      *)
C9_Witness ==
  /\ qn = 2 /\ qq > 0 /\ qx < 0
  /\ Representable(qx - FMod(qx, qq))
  /\ q1 # qx /\ q1 # 0 /\ q2 = q1

(* C10: when a thread performs the lookup of process, its id is a key of    *)
(* the map with a non-null buffer, so the lookup inserts nothing and        *)
(* yields no null pointer.                                                  *)
C10_LookupFindsOwnBuffer ==
  \A w \in Workers :
    /\ pc[w] = "index" => (w \in DOMAIN buffer /\ buffer[w] # NULL)
    /\ pc[w] \in {"unlock_shared", "planes"} => pbuf[w] # NULL

====
